---- MODULE Spec2Model ----
(***************************************************************************)
(* A model of lib/open_library_api.py: the OpenLibraryAPI client           *)
(* (search_books, _make_request, format_book_result) and its interactive   *)
(* prompt loop (interactive_search).                                       *)
(*                                                                         *)
(* A Python str is a sequence of one-character strings, so that            *)
(* str.replace, str.strip, str.lower and iteration over a str are computed *)
(* character by character.  Text handed to print or returned by            *)
(* format_book_result is rendered as a TLA+ string.                        *)
(***************************************************************************)
EXTENDS Integers, Sequences, FiniteSets, TLC

VARIABLES
    default_fields,   \* self.default_fields: sequence of field names
    default_limit,    \* self.default_limit
    issued,           \* number of requests.get calls since construction
    pc,               \* position of interactive_search
    \* What the most recent step did (the values named No... when it did not):
    call,             \* the arguments of its search_books call
    repeated,         \* its search_books call has the arguments of the call
                      \* the step before it made
    request,          \* the url and params of its requests.get
    response,         \* what the transport did with that GET
    trace,            \* the events of its search_books or format_book_result
    result,           \* how that operation ended
    book_data,        \* the argument of its format_book_result call
    event,            \* what its input() at the prompt delivered
    output            \* the lines it printed at the prompt

vars == <<default_fields, default_limit, issued, pc, call, repeated, request,
          response, trace, result, book_data, event, output>>

----------------------------------------------------------------------------
(* Bounds of the model. *)

\* search_books / loop iterations performed on one client
MaxCalls == 2
\* length of the titles enumerated character by character
MaxTitleLen == 3
\* length of the lines typed at the interactive prompt
MaxLineLen == 2
\* number of entries of a record's author_name list
MaxAuthors == 2

----------------------------------------------------------------------------
(* Python strings. *)

RECURSIVE Concat(_)
\* the characters of a str, as one TLA+ string
Concat(cs) == IF cs = <<>> THEN "" ELSE Head(cs) \o Concat(Tail(cs))

RECURSIVE Join(_, _)
\* sep.join(xs) for a sequence xs of strings
Join(sep, xs) ==
    IF xs = <<>> THEN ""
    ELSE IF Len(xs) = 1 THEN xs[1]
    ELSE xs[1] \o sep \o Join(sep, Tail(xs))

\* s.replace(old, new) for one-character old and new: every occurrence
Replace(s, old, new) == [i \in 1..Len(s) |-> IF s[i] = old THEN new ELSE s[i]]

\* the characters str.strip() removes (among those the model uses)
IsSpace(c) == c \in {" ", "\t"}

RECURSIVE LStrip(_)
LStrip(s) == IF s # <<>> /\ IsSpace(Head(s)) THEN LStrip(Tail(s)) ELSE s

RECURSIVE RStrip(_)
RStrip(s) ==
    IF s # <<>> /\ IsSpace(s[Len(s)]) THEN RStrip(SubSeq(s, 1, Len(s) - 1)) ELSE s

\* s.strip()
Strip(s) == RStrip(LStrip(s))

\* c.lower() for the letters the model uses
LowerChar(c) == IF c = "Q" THEN "q" ELSE IF c = "A" THEN "a" ELSE c

\* s.lower()
Lower(s) == [i \in 1..Len(s) |-> LowerChar(s[i])]

\* all strings over the alphabet cs of length at most n
StringsUpTo(cs, n) == UNION {[1..k -> cs] : k \in 0..n}

\* str(n) for a natural number below 100
Digit(d) ==
    CASE d = 0 -> "0" [] d = 1 -> "1" [] d = 2 -> "2" [] d = 3 -> "3" [] d = 4 -> "4"
      [] d = 5 -> "5" [] d = 6 -> "6" [] d = 7 -> "7" [] d = 8 -> "8" [] d = 9 -> "9"

IntToStr(n) == IF n < 10 THEN Digit(n) ELSE Digit(n \div 10) \o Digit(n % 10)

----------------------------------------------------------------------------
(* Python values found in a book record. *)

PyStr(cs) == [t |-> "str", s |-> cs, n |-> 0, l |-> <<>>]
PyNone == [t |-> "none", s |-> <<>>, n |-> 0, l |-> <<>>]
PyInt(k) == [t |-> "int", s |-> <<>>, n |-> k, l |-> <<>>]
\* a list whose items are PyStr, PyInt or PyNone values without their l field
PyList(items) == [t |-> "list", s |-> <<>>, n |-> 0, l |-> items]
Item(v) == [t |-> v.t, s |-> v.s, n |-> v.n]

\* str(v), as the f-string of format_book_result renders a value
Render(v) ==
    CASE v.t = "str" -> Concat(v.s)
      [] v.t = "none" -> "None"
      [] v.t = "int" -> IntToStr(v.n)

\* A value of any type given as book_data.  A dict holds the keys in has.
Dict(has, title, author_name) ==
    [t |-> "dict", has |-> has, title |-> title, author_name |-> author_name]
NotADict(t) == [t |-> t, has |-> {}, title |-> PyNone, author_name |-> PyNone]
NoData == NotADict("unset")

\* A parsed JSON body: a dict with the keys in keys, or a value of another type.
Body(t, keys, docs, numFound) ==
    [t |-> t, keys |-> keys, docs |-> docs, numFound |-> numFound]
NoBody == Body("none", {}, <<>>, 0)

----------------------------------------------------------------------------
(* The transport: what requests.get and the response object do. *)

BASE_URL == "https://openlibrary.org/search.json"

\* requests.get raises exc before any response exists
GetRaises(exc) == [get_raises |-> exc, status |-> 0, json_raises |-> "", body |-> NoBody]
\* a response with this status code and a JSON body
Responds(status, body) ==
    [get_raises |-> "", status |-> status, json_raises |-> "", body |-> body]
\* a response whose body is not JSON: response.json() raises exc
BadJson(status, exc) ==
    [get_raises |-> "", status |-> status, json_raises |-> exc, body |-> NoBody]
NoResponse == [get_raises |-> "", status |-> 0, json_raises |-> "", body |-> NoBody]

\* response.raise_for_status() raises HTTPError for 4xx and 5xx
RaiseForStatus(status) == status >= 400 /\ status < 600

\* the classes `except requests.exceptions.RequestException` catches;
\* JSONDecodeError is requests.exceptions.JSONDecodeError, which
\* response.json() raises for a body that is not JSON
IsRequestException(exc) ==
    exc \in {"ConnectionError", "Timeout", "HTTPError", "JSONDecodeError"}

\* the classes `except Exception` catches: all but KeyboardInterrupt
IsException(exc) == exc # "" /\ exc # "KeyboardInterrupt"

----------------------------------------------------------------------------
(* Events of one operation and the way it ends. *)

\* an event; the text of a GET is its url, the text of a raise is the class
\* of the exception, which also stands for its message in what is printed
Ev(ev, text) == [ev |-> ev, text |-> text]
Returned(body, text) == [kind |-> "return", exc |-> "", body |-> body, text |-> text]
Raised(exc) == [kind |-> "raise", exc |-> exc, body |-> NoBody, text |-> ""]
NoResult == [kind |-> "none", exc |-> "", body |-> NoBody, text |-> ""]

\* number of events of kind ev in trace tr
Count(tr, ev) == Cardinality({i \in 1..Len(tr) : tr[i].ev = ev})

----------------------------------------------------------------------------
(* OpenLibraryAPI.__init__ *)

\* an Optional argument: given = FALSE is None
NoneArg == [given |-> FALSE, v |-> <<>>, n |-> 0]
ListArg(xs) == [given |-> TRUE, v |-> xs, n |-> 0]
IntArg(k) == [given |-> TRUE, v |-> <<>>, n |-> k]

DefaultFields == <<"title", "author_name">>

\* default_fields or ["title", "author_name"]
InitFields(arg) == IF arg.given /\ arg.v # <<>> THEN arg.v ELSE DefaultFields

----------------------------------------------------------------------------
(* OpenLibraryAPI._make_request and search_books *)

NoRequest == [url |-> "", title |-> <<>>, fields |-> "", limit |-> 0]
NoCall == [made |-> FALSE, title |-> <<>>, fields |-> NoneArg, limit |-> NoneArg]

\* title.replace(" ", "+", 1): only the first space is replaced
EncodeTitleFirstOnly(title) ==
    [i \in 1..Len(title) |->
        IF title[i] = " " /\ \A j \in 1..(i - 1) : title[j] # " "
        THEN "+" ELSE title[i]]

\* title.replace(" ", "+")
EncodeTitle(title) == Replace(title, " ", "+")

\* fields or self.default_fields
ResolveFields(fields) ==
    IF fields.given /\ fields.v # <<>> THEN fields.v ELSE default_fields

\* limit or self.default_limit
ResolveLimit(limit) ==
    IF limit.given /\ limit.n # 0 THEN limit.n ELSE default_limit

\* the params dict of search_books, with the endpoint it is sent to
SearchParams(title, fields, limit) ==
    [url |-> BASE_URL,
     title |-> EncodeTitle(title),
     fields |-> Join(",", ResolveFields(fields)),
     limit |-> ResolveLimit(limit)]

\* the except clause of _make_request: a RequestException is printed and
\* raised again, any other exception passes through untouched
Fails(exc) ==
    IF IsRequestException(exc)
    THEN <<Ev("print", "Error making API request: " \o exc), Ev("raise", exc)>>
    ELSE <<Ev("raise", exc)>>

\* _make_request that tries the GET a second time before it gives up
MakeRequestRetry(params, outcome) ==
    LET get == <<Ev("GET", params.url)>> IN
    IF outcome.get_raises # ""
    THEN [trace |-> get \o get \o Fails(outcome.get_raises),
          result |-> Raised(outcome.get_raises)]
    ELSE IF RaiseForStatus(outcome.status)
    THEN [trace |-> get \o get \o Fails("HTTPError"),
          result |-> Raised("HTTPError")]
    ELSE IF outcome.json_raises # ""
    THEN [trace |-> get \o Fails(outcome.json_raises),
          result |-> Raised(outcome.json_raises)]
    ELSE [trace |-> get \o <<Ev("return", "")>>,
          result |-> Returned(outcome.body, "")]

\* _make_request without the print of its except clause
MakeRequestSilent(params, outcome) ==
    LET get == <<Ev("GET", params.url)>> IN
    IF outcome.get_raises # ""
    THEN [trace |-> get \o <<Ev("raise", outcome.get_raises)>>,
          result |-> Raised(outcome.get_raises)]
    ELSE IF RaiseForStatus(outcome.status)
    THEN [trace |-> get \o <<Ev("raise", "HTTPError")>>,
          result |-> Raised("HTTPError")]
    ELSE IF outcome.json_raises # ""
    THEN [trace |-> get \o <<Ev("raise", outcome.json_raises)>>,
          result |-> Raised(outcome.json_raises)]
    ELSE [trace |-> get \o <<Ev("return", "")>>,
          result |-> Returned(outcome.body, "")]

\* _make_request that keeps only the docs of the body it returns
MakeRequestDocsOnly(params, outcome) ==
    LET get == <<Ev("GET", params.url)>> IN
    IF outcome.get_raises # ""
    THEN [trace |-> get \o Fails(outcome.get_raises),
          result |-> Raised(outcome.get_raises)]
    ELSE IF RaiseForStatus(outcome.status)
    THEN [trace |-> get \o Fails("HTTPError"), result |-> Raised("HTTPError")]
    ELSE IF outcome.json_raises # ""
    THEN [trace |-> get \o Fails(outcome.json_raises),
          result |-> Raised(outcome.json_raises)]
    ELSE [trace |-> get \o <<Ev("return", "")>>,
          result |-> Returned(Body(outcome.body.t,
                                   outcome.body.keys \cap {"docs"},
                                   outcome.body.docs, 0), "")]

\* _make_request(params) when the transport does outcome: the events and the end
MakeRequest(params, outcome) ==
    LET get == <<Ev("GET", params.url)>> IN
    IF outcome.get_raises # ""
    THEN [trace |-> get \o Fails(outcome.get_raises),
          result |-> Raised(outcome.get_raises)]
    ELSE IF RaiseForStatus(outcome.status)
    THEN [trace |-> get \o Fails("HTTPError"), result |-> Raised("HTTPError")]
    ELSE IF outcome.json_raises # ""
    THEN [trace |-> get \o Fails(outcome.json_raises),
          result |-> Raised(outcome.json_raises)]
    ELSE [trace |-> get \o <<Ev("return", "")>>,
          result |-> Returned(outcome.body, "")]

\* search_books(title, fields, limit) when the transport does outcome
SearchEffect(title, fields, limit, outcome) ==
    LET params == SearchParams(title, fields, limit)
        eff == MakeRequest(params, outcome)
    IN [call |-> [made |-> TRUE, title |-> title, fields |-> fields,
                  limit |-> limit],
        request |-> params,
        response |-> outcome,
        trace |-> eff.trace,
        result |-> eff.result]

\* search_books that answers a repeated call from the previous result
SearchBooksCached(title, fields, limit, outcome) ==
    /\ pc = "idle"
    /\ issued < MaxCalls
    /\ \E eff \in {SearchEffect(title, fields, limit, outcome)} :
       LET hit == call.made /\ call = eff.call /\ result.kind = "return"
       IN /\ call' = eff.call
          /\ repeated' = (call.made /\ call = eff.call)
          /\ request' = eff.request
          /\ response' = IF hit THEN response ELSE eff.response
          /\ trace' = IF hit THEN <<Ev("return", "")>> ELSE eff.trace
          /\ result' = IF hit THEN result ELSE eff.result
          /\ issued' = IF hit THEN issued ELSE issued + Count(eff.trace, "GET")
    /\ book_data' = NoData
    /\ UNCHANGED <<default_fields, default_limit, pc, event, output>>

\* search_books(title, fields, limit) as one step
SearchBooks(title, fields, limit, outcome) ==
    /\ pc = "idle"
    /\ issued < MaxCalls
    /\ \E eff \in {SearchEffect(title, fields, limit, outcome)} :
          /\ call' = eff.call
          /\ repeated' = (call.made /\ call = eff.call)
          /\ request' = eff.request
          /\ response' = eff.response
          /\ trace' = eff.trace
          /\ result' = eff.result
          /\ issued' = issued + Count(eff.trace, "GET")
    /\ book_data' = NoData
    /\ UNCHANGED <<default_fields, default_limit, pc, event, output>>

----------------------------------------------------------------------------
(* OpenLibraryAPI.format_book_result *)

UnknownTitle ==
    PyStr(<<"U", "n", "k", "n", "o", "w", "n", " ", "T", "i", "t", "l", "e">>)
UnknownAuthor ==
    PyStr(<<"U", "n", "k", "n", "o", "w", "n", " ", "A", "u", "t", "h", "o", "r">>)
CouldNotFormat == "Could not format book information"

\* ", ".join(v) succeeds for a list of str and for a str (joined character
\* by character); it raises TypeError for None, an int, or a list holding a
\* non-str item
Joinable(v) ==
    \/ v.t = "str"
    \/ v.t = "list" /\ \A i \in 1..Len(v.l) : v.l[i].t = "str"

\* the strings ", ".join(v) iterates over
JoinItems(v) ==
    IF v.t = "str" THEN v.s ELSE [i \in 1..Len(v.l) |-> Concat(v.l[i].s)]

\* the try block of format_book_result: the formatted text, or the
\* exception an unexpected type raises
FormatBody(data) ==
    IF data.t # "dict" THEN Raised("AttributeError")
    ELSE LET title == IF "title" \in data.has THEN data.title ELSE UnknownTitle
             authors == IF "author_name" \in data.has THEN data.author_name
                        ELSE PyList(<<Item(UnknownAuthor)>>)
         IN IF ~Joinable(authors) THEN Raised("TypeError")
            ELSE Returned(NoBody, "Title: " \o Render(title) \o "\nAuthor(s): "
                                  \o Join(", ", JoinItems(authors)))

\* format_book_result without its try/except
FormatBookResultNoCatch(data) ==
    LET r == FormatBody(data) IN
    IF r.kind = "raise"
    THEN [trace |-> <<Ev("raise", r.exc)>>, result |-> r]
    ELSE [trace |-> <<Ev("return", r.text)>>, result |-> r]

\* format_book_result(book_data): the events and the end
FormatBookResult(data) ==
    LET r == FormatBody(data) IN
    IF r.kind = "raise"
    THEN [trace |-> <<Ev("print", "Error formatting book data: " \o r.exc),
                      Ev("return", CouldNotFormat)>>,
          result |-> Returned(NoBody, CouldNotFormat)]
    ELSE [trace |-> <<Ev("return", r.text)>>, result |-> r]

\* format_book_result(book_data) as one step
Format(data) ==
    /\ pc = "idle"
    /\ \E eff \in {FormatBookResult(data)} :
          /\ book_data' = data
          /\ trace' = eff.trace
          /\ result' = eff.result
    /\ call' = NoCall
    /\ repeated' = FALSE
    /\ request' = NoRequest
    /\ response' = NoResponse
    /\ UNCHANGED <<default_fields, default_limit, issued, pc, event, output>>

----------------------------------------------------------------------------
(* OpenLibraryAPI.interactive_search *)

\* what input() delivers: a line, end of input (EOFError) or Ctrl-C
\* (KeyboardInterrupt)
Line(cs) == [kind |-> "line", line |-> cs]
EndOfInput == [kind |-> "eof", line |-> <<>>]
Interrupt == [kind |-> "interrupt", line |-> <<>>]
NoEvent == [kind |-> "none", line |-> <<>>]

Prompt == "\nEnter a book title (or 'q' to quit): "

\* the texts printed during the events of tr
Printed(tr) ==
    LET ps == SelectSeq(tr, LAMBDA e : e.ev = "print")
    IN [i \in 1..Len(ps) |-> ps[i].text]

\* an iteration that calls neither search_books nor format_book_result
Quiet(next, lines) ==
    [pc |-> next, out |-> lines, call |-> NoCall, request |-> NoRequest,
     response |-> NoResponse, trace |-> <<>>, result |-> NoResult,
     book_data |-> NoData]

\* except clauses that report the error and leave the loop
HandledBreak(exc) ==
    IF exc = "KeyboardInterrupt"
    THEN [pc |-> "done", out |-> <<"\nExiting...">>]
    ELSE [pc |-> "done", out |-> <<"An error occurred: " \o exc>>]

\* the except clauses of the loop: KeyboardInterrupt breaks, any Exception
\* is reported and the loop goes on
Handled(exc) ==
    IF IsException(exc)
    THEN [pc |-> "prompt", out |-> <<"An error occurred: " \o exc>>]
    ELSE [pc |-> "done", out |-> <<"\nExiting...">>]

\* the rest of an iteration once search_books has ended with res
AfterSearch(res) ==
    IF res.kind = "raise" THEN Handled(res.exc) @@ [book_data |-> NoData]
    ELSE IF res.body.t # "dict"
    THEN Handled("AttributeError") @@ [book_data |-> NoData]
    ELSE IF "docs" \in res.body.keys /\ res.body.docs # <<>>
    THEN LET f == FormatBookResult(res.body.docs[1])
         IN [pc |-> "prompt",
             out |-> <<"\nSearch Result:">> \o Printed(f.trace)
                     \o <<f.result.text>>,
             book_data |-> res.body.docs[1]]
    ELSE [pc |-> "prompt", out |-> <<"No results found for that title">>,
          book_data |-> NoData]

\* one iteration of the while loop, from input() to the next prompt or the
\* end of the loop
Iteration(ev, outcome) ==
    IF ev.kind = "interrupt" THEN Quiet("done", <<"\nExiting...">>)
    ELSE IF ev.kind = "eof"
    THEN Quiet(Handled("EOFError").pc, Handled("EOFError").out)
    ELSE LET title == Strip(ev.line) IN
         IF Lower(title) = <<"q">> THEN Quiet("done", <<>>)
         ELSE IF title = <<>>
         THEN Quiet("prompt", <<"Please enter a valid book title">>)
         ELSE LET s == SearchEffect(title, NoneArg, NoneArg, outcome)
                  a == AfterSearch(s.result)
              IN [pc |-> a.pc, out |-> Printed(s.trace) \o a.out,
                  call |-> s.call, request |-> s.request,
                  response |-> s.response, trace |-> s.trace,
                  result |-> s.result, book_data |-> a.book_data]

\* interactive_search up to its first prompt
InteractiveSearch ==
    /\ pc = "idle"
    /\ pc' = "prompt"
    /\ output' = <<"Open Library Book Search", "-----------------------">>
    /\ UNCHANGED <<default_fields, default_limit, issued, call, repeated,
                   request, response, trace, result, book_data, event>>

\* one iteration as one step
LoopStep(ev, outcome) ==
    /\ pc = "prompt"
    /\ issued < MaxCalls
    /\ \E it \in {Iteration(ev, outcome)} :
          /\ pc' = it.pc
          /\ output' = <<Prompt>> \o it.out
          /\ call' = it.call
          /\ repeated' = (call.made /\ call = it.call)
          /\ request' = it.request
          /\ response' = it.response
          /\ trace' = it.trace
          /\ result' = it.result
          /\ book_data' = it.book_data
          /\ issued' = issued + Count(it.trace, "GET")
    /\ event' = ev
    /\ UNCHANGED <<default_fields, default_limit>>

----------------------------------------------------------------------------
(* Inputs. *)

TestBookTitle ==
    <<"T", "e", "s", "t", " ", "B", "o", "o", "k">>
NoAuthorBookTitle ==
    <<"N", "o", " ", "A", "u", "t", "h", "o", "r", " ", "B", "o", "o", "k">>
AuthorOne ==
    <<"A", "u", "t", "h", "o", "r", " ", "O", "n", "e">>
AuthorTwo ==
    <<"A", "u", "t", "h", "o", "r", " ", "T", "w", "o">>

\* the record of the test suite's mock response
TestBook ==
    Dict({"title", "author_name"}, PyStr(TestBookTitle),
         PyList(<<Item(PyStr(AuthorOne)), Item(PyStr(AuthorTwo))>>))
NoAuthorBook == Dict({"title"}, PyStr(NoAuthorBookTitle), PyNone)
EmptyBook == Dict({}, PyNone, PyNone)

\* JSON bodies the service may answer with
Bodies ==
    {Body("dict", {}, <<>>, 0),
     Body("dict", {"docs", "numFound"}, <<NoAuthorBook, TestBook>>, 2),
     Body("list", {}, <<>>, 0)}

\* what the transport may do with one GET
Outcomes ==
    {Responds(200, b) : b \in Bodies}
    \cup {Responds(st, NoBody) : st \in {404, 500}}
    \cup {GetRaises(e) : e \in {"ConnectionError", "Exception"}}
    \cup {BadJson(200, "JSONDecodeError")}

Titles == {TestBookTitle, <<"a", " ", " ", "b">>}
FieldArgs ==
    {NoneArg, ListArg(<<>>), ListArg(<<"title">>),
     ListArg(<<"author_name", "title", "isbn">>)}
LimitArgs == {NoneArg, IntArg(0), IntArg(5)}

\* constructor arguments
CtorFieldArgs == {NoneArg, ListArg(<<"key">>)}
CtorLimitArgs == {1, 3}

\* records given to format_book_result
TitleVals == {PyStr(TestBookTitle), PyStr(NoAuthorBookTitle), PyNone, PyInt(42)}
AuthorItems == {Item(PyStr(AuthorOne)), Item(PyStr(AuthorTwo)), Item(PyInt(7))}
AuthorVals ==
    {PyList(l) : l \in StringsUpTo(AuthorItems, MaxAuthors)}
    \cup {PyStr(<<"a", "b">>), PyNone, PyInt(7)}
Records ==
    {Dict({"title", "author_name"}, t, a) : t \in TitleVals, a \in AuthorVals}
    \cup {Dict({"title"}, t, PyNone) : t \in TitleVals}
    \cup {Dict({"author_name"}, PyNone, a) : a \in AuthorVals}
    \cup {EmptyBook, NotADict("none"), NotADict("list"), NotADict("str")}
SampleRecords == {TestBook, NotADict("none")}

----------------------------------------------------------------------------
(* The client: constructed, then used through search_books and             *)
(* format_book_result.                                                     *)

Constructed(fields, limit) ==
    /\ default_fields = InitFields(fields)
    /\ default_limit = limit
    /\ call = NoCall
    /\ repeated = FALSE
    /\ response = NoResponse
    /\ request = NoRequest
    /\ trace = <<>>
    /\ result = NoResult
    /\ issued = 0
    /\ book_data = NoData
    /\ pc = "idle"
    /\ event = NoEvent
    /\ output = <<>>

Init == \E f \in CtorFieldArgs, l \in CtorLimitArgs : Constructed(f, l)

Search ==
    \E t \in Titles, f \in FieldArgs, l \in LimitArgs, o \in Outcomes :
        SearchBooks(t, f, l, o)

FormatSample == \E d \in SampleRecords : Format(d)

Next == Search \/ FormatSample

Spec == Init /\ [][Next]_vars

----------------------------------------------------------------------------
(* format_book_result over every record. *)

FormatAny == \E d \in Records : Format(d)

SpecFormat == Init /\ [][FormatAny]_vars

----------------------------------------------------------------------------
(* search_books over every title up to MaxTitleLen characters. *)

TitleChars == {"a", " ", "\t", "&"}
AllTitles == StringsUpTo(TitleChars, MaxTitleLen)

SearchAnyTitle ==
    \E t \in AllTitles, l \in {NoneArg, IntArg(5)} :
        SearchBooks(t, NoneArg, l, Responds(200, Body("dict", {}, <<>>, 0)))

SpecEncode == Constructed(NoneArg, 1) /\ [][SearchAnyTitle]_vars

----------------------------------------------------------------------------
(* The program: api = OpenLibraryAPI(); api.interactive_search() *)

LineChars == {"a", "q", "Q", " "}
Events == {Line(l) : l \in StringsUpTo(LineChars, MaxLineLen)}
          \cup {EndOfInput, Interrupt}
LoopOutcomes ==
    {Responds(200, Body("dict", {"docs"}, <<TestBook>>, 0)),
     Responds(200, Body("dict", {"docs"}, <<NotADict("none")>>, 0)),
     Responds(200, Body("dict", {"docs"}, <<>>, 0)),
     Responds(200, Body("list", {}, <<>>, 0)),
     Responds(404, NoBody),
     GetRaises("ConnectionError"),
     GetRaises("Exception"),
     GetRaises("KeyboardInterrupt")}

Loop == \E e \in Events, o \in LoopOutcomes : LoopStep(e, o)

SpecLoop == Constructed(NoneArg, 1) /\ [][InteractiveSearch \/ Loop]_vars

----------------------------------------------------------------------------
(* Properties. *)

\* the most recent step was a search_books call with a title that is
\* non-empty after trimming
ValidSearch == call.made /\ Strip(call.title) # <<>>

\* C1: every search_books call with a valid title and a positive (or no)
\* limit issues exactly one GET, whose fields parameter is the comma-join of
\* the caller's fields whenever fields is given (of default_fields only when
\* it is not given), and whose limit parameter is the caller's limit whenever
\* limit is given (default_limit only when it is not given).
C1_CallerArgumentsOverride ==
    (ValidSearch /\ (call.limit.given => call.limit.n > 0)) =>
        /\ Count(trace, "GET") = 1
        /\ request.fields =
              Join(",", IF call.fields.given THEN call.fields.v
                        ELSE default_fields)
        /\ request.limit =
              IF call.limit.given THEN call.limit.n ELSE default_limit

\* the transport failed: requests.get raised, or the status is 4xx or 5xx
TransportFailed ==
    \/ response.get_raises # ""
    \/ response.status \in 400..599

\* C2: when the transport fails, search_books ends by raising that error
\* (the exception requests.get raised, or HTTPError for a 4xx/5xx status),
\* returns nothing, and has made exactly one GET.
C2_FailureRaisedAfterOneAttempt ==
    (call.made /\ TransportFailed) =>
        /\ result.kind = "raise"
        /\ result.exc = IF response.get_raises # "" THEN response.get_raises
                        ELSE "HTTPError"
        /\ Count(trace, "GET") = 1
        /\ Count(trace, "return") = 0
        /\ trace[Len(trace)].ev = "raise"

\* C2 witness: a second call on the same client got a 500 and raised
C2_Witness ==
    /\ call.made /\ issued = 2
    /\ response.status = 500
    /\ result = Raised("HTTPError")

\* C3 as stated: every search_books call that ends by raising has printed
\* exactly one diagnostic, and printed it before the raise.
C3_EveryRaiseHasDiagnostic ==
    (call.made /\ result.kind = "raise") =>
        /\ Count(trace, "print") = 1
        /\ \E i \in 1..Len(trace) :
              /\ trace[i].ev = "print"
              /\ \A j \in 1..Len(trace) : trace[j].ev = "raise" => i < j

\* C3 amended: a search_books call that ends by raising a
\* requests.exceptions.RequestException (connection failure, timeout, HTTP
\* error status, requests' JSON decode error) has printed exactly one
\* diagnostic, immediately before the raise; a call that ends by raising any
\* other exception has printed none.
C3_RequestExceptionHasDiagnostic ==
    (call.made /\ result.kind = "raise") =>
        IF result.exc \in {"ConnectionError", "Timeout", "HTTPError",
                           "JSONDecodeError"}
        THEN /\ Count(trace, "print") = 1
             /\ Len(trace) >= 2
             /\ trace[Len(trace) - 1].ev = "print"
             /\ trace[Len(trace)] = Ev("raise", result.exc)
        ELSE /\ Count(trace, "print") = 0
             /\ trace[Len(trace)] = Ev("raise", result.exc)

\* C3 witness: a 404 was printed once and raised
C3_Witness ==
    /\ call.made
    /\ response.status = 404
    /\ result = Raised("HTTPError")
    /\ Count(trace, "print") = 1

\* the record is a mapping whose title, when present, is a str and whose
\* author_name, when present, is a list of str
WellFormed(d) ==
    /\ d.t = "dict"
    /\ "title" \in d.has => d.title.t = "str"
    /\ "author_name" \in d.has =>
          /\ d.author_name.t = "list"
          /\ \A i \in 1..Len(d.author_name.l) : d.author_name.l[i].t = "str"

\* C4: for a well-formed record format_book_result returns
\* "Title: {title}\nAuthor(s): {authors}", the title being the record's title
\* or "Unknown Title" when absent, the authors being the author_name entries
\* joined with ", " or "Unknown Author" when author_name is absent or empty.
C4_FormatResolution ==
    WellFormed(book_data) =>
        LET title == IF "title" \in book_data.has
                     THEN Concat(book_data.title.s) ELSE "Unknown Title"
            names == book_data.author_name.l
            authors == IF "author_name" \notin book_data.has \/ names = <<>>
                       THEN "Unknown Author"
                       ELSE Join(", ", [i \in 1..Len(names) |->
                                           Concat(names[i].s)])
        IN result = Returned(NoBody, "Title: " \o title \o "\nAuthor(s): "
                                     \o authors)

\* formatting fails inside format_book_result: the argument is no mapping,
\* or its author_name is neither a str nor a list of str
FormatFails(d) ==
    \/ d.t # "dict"
    \/ /\ "author_name" \in d.has
       /\ \/ d.author_name.t \notin {"list", "str"}
          \/ /\ d.author_name.t = "list"
             /\ \E i \in 1..Len(d.author_name.l) :
                   d.author_name.l[i].t # "str"

\* C5: format_book_result always ends by returning a string, never by
\* raising; when formatting fails it returns "Could not format book
\* information" after printing one diagnostic.
C5_FormatNeverRaises ==
    book_data # NoData =>
        /\ result.kind = "return"
        /\ trace[Len(trace)] = Ev("return", result.text)
        /\ Count(trace, "raise") = 0
        /\ FormatFails(book_data) =>
              /\ result.text = "Could not format book information"
              /\ Len(trace) = 2
              /\ trace[1].ev = "print"

\* C5 witness: None was given and the fallback came back
C5_Witness ==
    /\ book_data = NotADict("none")
    /\ result.text = "Could not format book information"
    /\ trace[1].ev = "print"

\* the most recent prompt got the quit command
Quit == event.kind = "line" /\ Lower(Strip(event.line)) = <<"q">>

\* C6: after end of input, the q command or an interrupt at the prompt the
\* loop has ended (no further prompt, no further request).
C6_EndsOnEofQuitInterrupt ==
    (event.kind \in {"eof", "interrupt"} \/ Quit) => pc = "done"

\* C7: an error raised by search_books inside the loop is reported and the
\* loop is back at the prompt; an input that is empty after trimming leads
\* back to the prompt with no request issued.
C7_LoopSurvivesErrors ==
    /\ (call.made /\ pc # "idle" /\ result.kind = "raise"
        /\ result.exc # "KeyboardInterrupt") =>
          /\ pc = "prompt"
          /\ output[Len(output)] = "An error occurred: " \o result.exc
    /\ (event.kind = "line" /\ Strip(event.line) = <<>>) =>
          /\ pc = "prompt"
          /\ ~call.made
          /\ Count(trace, "GET") = 0
          /\ output = <<Prompt, "Please enter a valid book title">>

\* C7 witness: the search of the loop raised ConnectionError and the loop
\* is at the prompt again
C7_Witness ==
    /\ pc = "prompt"
    /\ event.kind = "line"
    /\ call.made
    /\ result = Raised("ConnectionError")

\* C8: when the response has a success status and a JSON body, search_books
\* returns exactly the body the transport delivered.
C8_BodyReturnedVerbatim ==
    (/\ call.made
     /\ response.get_raises = ""
     /\ response.status \in 200..299
     /\ response.json_raises = "") =>
        result = Returned(response.body, "")

\* C8 witness: a body with docs and another key came back
C8_Witness ==
    /\ call.made
    /\ result.kind = "return"
    /\ result.body.keys = {"docs", "numFound"}
    /\ Len(result.body.docs) = 2

\* C9: no step changes default_fields or default_limit; every search_books
\* call issues one more GET; a call with the arguments of the call before it
\* sends the same request.
C9_RepeatedCallSameRequest ==
    [][/\ default_fields' = default_fields
       /\ default_limit' = default_limit
       /\ call'.made => issued' = issued + 1
       /\ repeated' => request' = request]_vars

\* C9 witness: the second call repeated the first, with fields and limit
\* left to the defaults
C9_Witness ==
    /\ repeated
    /\ issued = 2
    /\ ~call.fields.given
    /\ ~call.limit.given

\* position i of title t holds whitespace with a word before and after it
BetweenWords(t, i) ==
    /\ IsSpace(t[i])
    /\ \E j \in 1..(i - 1) : ~IsSpace(t[j])
    /\ \E k \in (i + 1)..Len(t) : ~IsSpace(t[k])

\* C10 as stated: for a title without leading or trailing whitespace, the
\* title parameter is the title with the whitespace between words replaced
\* by + and every other character unchanged.
C10_WhitespaceBetweenWords ==
    (ValidSearch /\ Strip(call.title) = call.title) =>
        request.title = [i \in 1..Len(call.title) |->
                            IF BetweenWords(call.title, i) THEN "+"
                            ELSE call.title[i]]

\* C10 amended: the title parameter is the title with every space character
\* (leading, trailing and repeated ones too) replaced by + and every other
\* character, tabs included, unchanged.
C10_EverySpaceBecomesPlus ==
    call.made =>
        /\ Len(request.title) = Len(call.title)
        /\ \A i \in 1..Len(call.title) :
              request.title[i] = IF call.title[i] = " " THEN "+"
                                 ELSE call.title[i]

\* C10 witness: "a &" was sent as "a+&"
C10_Witness ==
    /\ call.title = <<"a", " ", "&">>
    /\ request.title = <<"a", "+", "&">>

====
